---- MODULE Spec2Model ----
(***************************************************************************)
(* A model of src/src/queues.js: Session (request, connect, end) and Queue *)
(* (push, each, start, stop, once, _processContinously, _runAndDestroy,    *)
(* reset), together with the two things the code talks to: the Fivebeans   *)
(* transport of every client (connect, error and close events) and the     *)
(* Beanstalkd tube (ready, delayed, reserved and deleted jobs).            *)
(*                                                                         *)
(* Every coroutine of the program (a reservation loop, once(), reset(),    *)
(* push()) is a process with a position pc.  A step of the model is one    *)
(* callback of the event loop: the callback and everything that runs       *)
(* synchronously after it (the promise settling, the coroutine resuming,   *)
(* the next request being made) is one action.                             *)
(***************************************************************************)
EXTENDS Integers, Sequences, FiniteSets, TLC

\* ---------------------------------------------------------------- bounds
MaxLoops    == 2     \* reservation loops alive at the same time
MaxClients  == 2     \* Fivebeans clients alive at the same time
MaxJobs     == 2     \* jobs ever put into the tube
MaxHandlers == 2     \* handlers ever registered with each()

\* ------------------------------------------------------ program constants
RESERVE_TIMEOUT == 30000
RELEASE_DELAY   == 60000
DefaultWidth    == 1

MaxWidth    == MaxLoops
MaxSessions == MaxLoops + 1

Loops    == 1..MaxLoops
OnceId   == MaxLoops + 1
ResetId  == MaxLoops + 2
PushId   == MaxLoops + 3
Procs    == 1..(MaxLoops + 3)
Clients  == 1..MaxClients
PutSession == 0
Sessions == 0..MaxSessions
Jobs     == 1..MaxJobs
Slots    == 0..(MaxWidth - 1)

VARIABLES
  processing,       \* Queue._processing
  handlers,         \* Queue._handlers.length
  width,            \* Queue.width: this._width || config.width || 1
  reserveSessions,  \* Queue._reserveSessions: slot -> session (0: none)
  client,           \* Session._client: session -> client (0: null)
  cliState,         \* transport of each client
  cliSess,          \* the Session whose connect() created the client
  jobs,             \* the tube: job -> [st, by]
  proc,             \* the coroutines
  testMode,         \* process.env.NODE_ENV == 'test'
  authenticate      \* config.authenticate is set

vars == <<processing, handlers, width, reserveSessions, client,
          cliState, cliSess, jobs, proc, testMode, authenticate>>

\* ---------------------------------------------------------------- errors
\* An error is a string (what Fivebeans passes to a callback) or an Error
\* object with a message.
StrErr(m) == [obj |-> FALSE, msg |-> m]
ObjErr(m) == [obj |-> TRUE, msg |-> m]
NoErr     == StrErr("")
HandlerErr == ObjErr("handler failed")
TransportErr == ObjErr("ECONNRESET")

\* error == 'TIMED_OUT' || error.message == 'TIMED_OUT'
IsTimedOut(e) == (~e.obj /\ e.msg = "TIMED_OUT") \/ (e.obj /\ e.msg = "TIMED_OUT")
\* error == 'NOT_FOUND'
IsNotFound(e) == ~e.obj /\ e.msg = "NOT_FOUND"

\* --------------------------------------------------------------- state
IdleProc == [pc |-> "idle", cmd |-> "none", cstep |-> "none", cli |-> 0,
             sess |-> 0, arg |-> 0, job |-> 0, hidx |-> 0, err |-> NoErr,
             res |-> "none", any |-> FALSE, stage |-> 0]

NoJob == [st |-> "none", by |-> 0]

Cur == [processing |-> processing, handlers |-> handlers, width |-> width,
        reserveSessions |-> reserveSessions,
        client |-> client, cliState |-> cliState, cliSess |-> cliSess,
        jobs |-> jobs, proc |-> proc, ovf |-> FALSE]

\* A closed client nothing refers to any more is forgotten, and so is a
\* Session nothing refers to: their numbers are free for a new client or
\* Session.
ClientInUse(st, p, k) ==
  \/ st.cliState[k] \in {"connecting", "open", "ending"}
  \/ \E q \in Procs \ {p} : st.proc[q].pc \in {"connect", "wait"} /\ st.proc[q].cli = k
  \/ \E j \in Jobs : st.jobs[j].st = "reserved" /\ st.jobs[j].by = k

SessionInUse(st, s) ==
  \/ \E i \in Slots : st.reserveSessions[i] = s
  \/ \E p \in Procs : st.proc[p].pc # "idle" /\ st.proc[p].sess = s
  \/ \E k \in Clients : st.cliState[k] # "unused" /\ st.cliSess[k] = s

Forget(st) ==
  [st EXCEPT !.cliState = [k \in Clients |-> IF ClientInUse(st, 0, k) THEN st.cliState[k]
                                            ELSE "unused"],
             !.cliSess = [k \in Clients |-> IF ClientInUse(st, 0, k) THEN st.cliSess[k]
                                           ELSE 0]]

Apply(st0) ==
  LET st == IF st0.ovf THEN st0 ELSE Forget(st0) IN
  /\ ~st.ovf
  /\ processing' = st.processing
  /\ handlers' = st.handlers
  /\ width' = st.width
  /\ reserveSessions' = st.reserveSessions
  /\ client' = st.client
  /\ cliState' = st.cliState
  /\ cliSess' = st.cliSess
  /\ jobs' = st.jobs
  /\ proc' = st.proc
  /\ UNCHANGED <<testMode, authenticate>>

Init ==
  /\ processing = FALSE
  /\ handlers = 0
  /\ width = DefaultWidth
  /\ reserveSessions = [i \in Slots |-> 0]
  /\ client = [s \in Sessions |-> 0]
  /\ cliState = [k \in Clients |-> "unused"]
  /\ cliSess = [k \in Clients |-> 0]
  /\ jobs \in [Jobs -> {NoJob, [st |-> "ready", by |-> 0], [st |-> "delayed", by |-> 0]}]
  /\ proc = [p \in Procs |-> IdleProc]
  /\ testMode \in BOOLEAN
  /\ authenticate \in BOOLEAN

Min(S) == CHOOSE x \in S : \A y \in S : x <= y


\* ------------------------------------------------------------- Session
\* Session.request up to its first suspension: connect() returns the
\* current client and the command goes out on it, or connect() creates a
\* client of its own and waits for its 'connect' event.
Request(st, p, cmd, arg) ==
  LET s == st.proc[p].sess IN
  IF st.ovf THEN st
  ELSE IF st.client[s] # 0
  THEN [st EXCEPT !.proc[p] = [@ EXCEPT !.pc = "wait", !.cmd = cmd,
                                        !.arg = arg, !.cli = st.client[s],
                                        !.cstep = "none"]]
  ELSE IF \A k \in Clients : ClientInUse(st, p, k)
  THEN [st EXCEPT !.ovf = TRUE]
  ELSE LET k == Min({c \in Clients : ~ClientInUse(st, p, c)}) IN
       [st EXCEPT !.cliState[k] = "connecting", !.cliSess[k] = s,
                  !.proc[p] = [@ EXCEPT !.pc = "connect", !.cmd = cmd,
                                        !.arg = arg, !.cli = k,
                                        !.cstep = "tcp"]]

\* Session.end
End(st, s) ==
  IF st.client[s] # 0
  THEN [st EXCEPT !.cliState[st.client[s]] = "ending", !.client[s] = 0]
  ELSE st

\* --------------------------------------------------------------- Queue
\* Queue._reserve(index)
Reserve(st, i) ==
  IF st.ovf \/ st.reserveSessions[i] # 0 THEN st
  ELSE IF \A s \in 1..MaxSessions : SessionInUse(st, s) THEN [st EXCEPT !.ovf = TRUE]
  ELSE [st EXCEPT !.reserveSessions[i] =
                    Min({s \in 1..MaxSessions : ~SessionInUse(st, s)})]

\* delay = (process.env.NODE_ENV == 'test' ? 0 : Math.floor(RELEASE_DELAY / 1000))
ReleaseDelay == IF testMode THEN 0 ELSE RELEASE_DELAY \div 1000

\* The head of the while loop of _processContinously.
LoopTop(st, p) ==
  IF st.ovf THEN st
  ELSE IF st.processing /\ st.handlers > 0
  THEN Request([st EXCEPT !.proc[p] = [IdleProc EXCEPT !.sess = st.proc[p].sess]],
               p, "reserve", RESERVE_TIMEOUT \div 1000)
  ELSE [st EXCEPT !.proc[p] = IdleProc]

\* Queue._processContinously(session): the coroutine runs to its first
\* suspension.
ProcessContinously(st, s) ==
  IF st.ovf THEN st
  ELSE IF \A p \in Loops : st.proc[p].pc # "idle"
  THEN [st EXCEPT !.ovf = TRUE]
  ELSE LET p == Min({q \in Loops : st.proc[q].pc = "idle"}) IN
       LoopTop([st EXCEPT !.proc[p] = [IdleProc EXCEPT !.sess = s]], p)

\* for (var i = 0; i < this.width; ++i) { _reserve(i); _processContinously }
RECURSIVE SpawnLoops(_, _)
SpawnLoops(st, i) ==
  IF st.ovf \/ i >= st.width THEN st
  ELSE LET st1 == Reserve(st, i) IN
       IF st1.ovf THEN st1
       ELSE SpawnLoops(ProcessContinously(st1, st1.reserveSessions[i]), i + 1)

\* A variant of the program whose loop goes round after every failure
\* without a pause.
CatchNoBackoff(st, p, e) ==
  IF p \in Loops THEN LoopTop(st, p)
  ELSE IF IsTimedOut(e)
       THEN [st EXCEPT !.proc[p] = [IdleProc EXCEPT !.res = IF st.proc[p].any
                                                            THEN "true" ELSE "false"]]
       ELSE [st EXCEPT !.proc[p] = [IdleProc EXCEPT !.res = "threw", !.err = e]]

\* The catch of _processContinously (loops) and of once().
Catch(st, p, e) ==
  IF p \in Loops
  THEN IF IsTimedOut(e)
       THEN LoopTop(st, p)
       ELSE [st EXCEPT !.proc[p] = [IdleProc EXCEPT !.pc = "backoff", !.err = e,
                                                    !.sess = st.proc[p].sess]]
  ELSE IF IsTimedOut(e)
       THEN [st EXCEPT !.proc[p] = [IdleProc EXCEPT !.res = IF st.proc[p].any
                                                            THEN "true" ELSE "false"]]
       ELSE [st EXCEPT !.proc[p] = [IdleProc EXCEPT !.res = "threw", !.err = e]]

\* _runAndDestroy returned normally: the loop goes round, once() sets
\* anyProcessed and reserves again.
AfterRun(st, p) ==
  IF p \in Loops THEN LoopTop(st, p)
  ELSE Request([st EXCEPT !.proc[p] = [IdleProc EXCEPT !.sess = st.proc[p].sess,
                                                      !.any = TRUE]],
               p, "reserve", 0)

\* _runAndDestroy from its entry to the first handler.
RunAndDestroy(st, p, j) ==
  [st EXCEPT !.proc[p] = [@ EXCEPT !.pc = "handler", !.cmd = "none", !.cli = 0,
                                   !.arg = 0, !.job = j, !.hidx = 1]]

\* A variant of the program that goes on without destroying the job.
DestroyJobSkipped(st, p) == AfterRun(st, p)

\* All handlers succeeded: destroy the job.
DestroyJob(st, p) == Request(st, p, "destroy", 0)

\* A variant of the program that releases without a delay.
ReleaseJobAtOnce(st, p, e) ==
  Request([st EXCEPT !.proc[p].err = e], p, "release", 0)

\* A handler failed: release the job and keep the failure to throw it.
ReleaseJob(st, p, e) ==
  Request([st EXCEPT !.proc[p].err = e], p, "release", ReleaseDelay)

\* A variant of the program in which the destroy is not guarded by a catch of
\* its own, so that its rejection reaches the catch that releases the job.
DestroyFailedReleases(st, p, e) == ReleaseJob(st, p, e)

\* The request for destroy was rejected: the inner catch logs and goes on.
DestroyFailed(st, p, e) == AfterRun(st, p)

\* The request for release was rejected: the rejection leaves the catch
\* block in place of the handler's failure.
ReleaseFailed(st, p, e) == Catch(st, p, e)

\* reset(): the catch of either loop.
ResetCatch(st, e) ==
  IF ~IsNotFound(e)
  THEN [st EXCEPT !.proc[ResetId] = [IdleProc EXCEPT !.res = "threw", !.err = e]]
  ELSE IF st.proc[ResetId].stage = 1
  THEN Request([st EXCEPT !.proc[ResetId].stage = 2], ResetId, "peek_delayed", 0)
  ELSE [st EXCEPT !.proc[ResetId] = [IdleProc EXCEPT !.res = "ok"]]

\* reset(): a request of it settled.
ResetSettle(st, ok, val) ==
  LET pr == st.proc[ResetId] IN
  IF ~ok THEN ResetCatch(st, val)
  ELSE IF pr.cmd = "destroy"
  THEN Request(st, ResetId, IF pr.stage = 1 THEN "peek_ready" ELSE "peek_delayed", 0)
  ELSE Request([st EXCEPT !.proc[ResetId].job = val], ResetId, "destroy", 0)

\* push(): its request settled.
PushSettle(st, ok, val) ==
  [st EXCEPT !.proc[PushId] = [IdleProc EXCEPT !.res = IF ok THEN "ok" ELSE "threw",
                                               !.err = IF ok THEN NoErr ELSE val]]

\* The promise of Session.request settles, resolved with val (ok) or
\* rejected with the error val, and the coroutine that waits for it resumes.
Settle(st, p, ok, val) ==
  LET pr == st.proc[p] IN
  IF st.ovf THEN st
  ELSE IF p = ResetId THEN ResetSettle(st, ok, val)
  ELSE IF p = PushId THEN PushSettle(st, ok, val)
  ELSE IF pr.cmd = "reserve"
  THEN IF ok THEN RunAndDestroy(st, p, val) ELSE Catch(st, p, val)
  ELSE IF pr.cmd = "destroy"
  THEN IF ok THEN AfterRun(st, p) ELSE DestroyFailed(st, p, val)
  ELSE \* release: throw error
       IF ok THEN Catch(st, p, pr.err) ELSE ReleaseFailed(st, p, val)

\* Every request with a command outstanding on client k is rejected with e.
RECURSIVE RejectAll(_, _, _)
RejectAll(st, ps, e) ==
  IF ps = {} \/ st.ovf THEN st
  ELSE LET p == Min(ps) IN RejectAll(Settle(st, p, FALSE, e), ps \ {p}, e)

Waiting(st, k) == {p \in Procs : st.proc[p].pc = "wait" /\ st.proc[p].cli = k}

\* A variant of the program whose listeners leave this._client alone.
ClientKept(st, k) == st

\* The 'error' listener of connect(): discard the client when it is the
\* current one, and end it.  The 'close' listener only discards it.
DiscardClient(st, k) ==
  IF st.client[st.cliSess[k]] = k THEN [st EXCEPT !.client[st.cliSess[k]] = 0] ELSE st

\* A variant of the program whose onError rejects like onClose.
OnErrorTimedOut(st, k) == RejectAll(st, Waiting(st, k), ObjErr("TIMED_OUT"))

\* onError of Session.request: reject(error).
OnError(st, k) == RejectAll(st, Waiting(st, k), TransportErr)

\* A variant of the program whose onClose rejects with an error that is
\* not the timeout.
OnCloseAsError(st, k) == RejectAll(st, Waiting(st, k), TransportErr)

\* onClose of Session.request: reject(new Error('TIMED_OUT')).
OnClose(st, k) == RejectAll(st, Waiting(st, k), ObjErr("TIMED_OUT"))

\* connect() after its last yield: this._client = client; return client.
\* The callback of request() then sends the command.
ConnectDone(st, p) ==
  LET pr == st.proc[p] IN
  [st EXCEPT !.client[pr.sess] = pr.cli,
             !.proc[p] = [@ EXCEPT !.pc = "wait", !.cstep = "none"]]

\* The catch of connect(): client.end(); throw error.
ConnectFailed(st, p, e) ==
  Settle([st EXCEPT !.cliState[st.proc[p].cli] = "ending"], p, FALSE, e)

\* The setup function of the session: use for the put session, watch and
\* then ignore for a reservation session.
FirstSetup(s) == IF s = PutSession THEN "use" ELSE "watch"

\* A variant of the program whose connect() stores the client as soon as a
\* yield of it succeeded, whatever is left to do.
ConnectNextEager(st, p) == ConnectDone(st, p)

\* connect() resumes after a yield that succeeded.
ConnectNext(st, p) ==
  LET pr == st.proc[p] IN
  IF pr.cstep = "tcp"
  THEN [st EXCEPT !.proc[p].cstep = IF authenticate THEN "auth" ELSE FirstSetup(pr.sess)]
  ELSE IF pr.cstep = "auth"
  THEN [st EXCEPT !.proc[p].cstep = FirstSetup(pr.sess)]
  ELSE IF pr.cstep = "watch"
  THEN [st EXCEPT !.proc[p].cstep = "ignore"]
  ELSE ConnectDone(st, p)

\* ------------------------------------------------------------- actions
\* A variant of the program whose each() starts the loops whenever the queue
\* is processing, whether or not the handler is the first.
EachSpawnsAgain(w) ==
  /\ handlers < MaxHandlers
  /\ LET st1 == [Cur EXCEPT !.width = IF w # 0 THEN w ELSE @,
                            !.handlers = @ + 1] IN
     Apply(IF st1.processing THEN SpawnLoops(st1, 0) ELSE st1)

\* Queue.each(handler, width); w = 0 is a call without a width.
Each(w) ==
  /\ handlers < MaxHandlers
  /\ LET st1 == [Cur EXCEPT !.width = IF w # 0 THEN w ELSE @,
                            !.handlers = @ + 1] IN
     Apply(IF st1.processing /\ st1.handlers = 1 THEN SpawnLoops(st1, 0) ELSE st1)

\* A variant of the program whose start() does not return early on a queue
\* that is processing.
StartAgain ==
  LET st1 == [Cur EXCEPT !.processing = TRUE] IN
  Apply(IF st1.handlers > 0 THEN SpawnLoops(st1, 0) ELSE st1)

\* Queue.start()
Start ==
  /\ ~processing
  /\ LET st1 == [Cur EXCEPT !.processing = TRUE] IN
     Apply(IF st1.handlers > 0 THEN SpawnLoops(st1, 0) ELSE st1)

RECURSIVE EndAll(_, _)
EndAll(st, i) ==
  IF i > MaxWidth - 1 THEN st
  ELSE EndAll(IF st.reserveSessions[i] # 0 THEN End(st, st.reserveSessions[i]) ELSE st, i + 1)

\* Queue.stop()
StopQueue(st) ==
  [EndAll([st EXCEPT !.processing = FALSE], 0)
     EXCEPT !.reserveSessions = [i \in Slots |-> 0]]

Stop ==
  /\ processing \/ \E i \in Slots : reserveSessions[i] # 0
  /\ Apply(StopQueue(Cur))

\* Queue.once() up to its first suspension.
Once ==
  /\ ~processing
  /\ proc[OnceId].pc = "idle"
  /\ IF handlers = 0
     THEN Apply([Cur EXCEPT !.proc[OnceId] = [IdleProc EXCEPT !.res = "false"]])
     ELSE LET st1 == Reserve(Cur, 0) IN
          /\ ~st1.ovf
          /\ Apply(Request([st1 EXCEPT !.proc[OnceId] =
                              [IdleProc EXCEPT !.sess = st1.reserveSessions[0]]],
                           OnceId, "reserve", 0))

\* Queue.reset() up to its first suspension.
Reset ==
  /\ proc[ResetId].pc = "idle"
  /\ Apply(Request([Cur EXCEPT !.proc[ResetId] =
                      [IdleProc EXCEPT !.sess = PutSession, !.stage = 1]],
                   ResetId, "peek_ready", 0))

\* Queue.push(job) up to its first suspension.
Push ==
  /\ proc[PushId].pc = "idle"
  /\ \E j \in Jobs : jobs[j].st = "none"
  /\ Apply(Request([Cur EXCEPT !.proc[PushId] = [IdleProc EXCEPT !.sess = PutSession]],
                   PushId, "put", 0))

\* The transport of client k is connected: 'connect' resumes connect().
TransportConnect(k) ==
  /\ cliState[k] = "connecting"
  /\ \E p \in Procs :
       /\ proc[p].pc = "connect" /\ proc[p].cli = k /\ proc[p].cstep = "tcp"
       /\ Apply(ConnectNext([Cur EXCEPT !.cliState[k] = "open"], p))

\* The broker answers the command connect() sent (the credential, use,
\* watch, ignore), with success or with an error.
ConnectReply(p, ok) ==
  /\ proc[p].pc = "connect"
  /\ proc[p].cstep \in {"auth", "use", "watch", "ignore"}
  /\ cliState[proc[p].cli] = "open"
  /\ Apply(IF ok THEN ConnectNext(Cur, p) ELSE ConnectFailed(Cur, p, StrErr("ERR")))

\* The transport of client k emits 'error'.
TransportError(k) ==
  /\ cliState[k] \in {"connecting", "open"}
  /\ Apply(OnError([DiscardClient(Cur, k) EXCEPT !.cliState[k] = "ending"], k))

\* The transport of client k emits 'close'.
TransportClose(k) ==
  /\ cliState[k] \in {"open", "ending"}
  /\ Apply(OnClose([DiscardClient(Cur, k) EXCEPT !.cliState[k] = "closed"], k))

\* The broker's answer to the command of process p.
ReadyJobs == {j \in Jobs : jobs[j].st = "ready"}
DelayedJobs == {j \in Jobs : jobs[j].st = "delayed"}

ReplyReserve(p) ==
  /\ proc[p].pc = "wait" /\ proc[p].cmd = "reserve"
  /\ cliState[proc[p].cli] = "open"
  /\ IF ReadyJobs = {}
     THEN Apply(Settle(Cur, p, FALSE, StrErr("TIMED_OUT")))
     ELSE \E j \in ReadyJobs :
            Apply(Settle([Cur EXCEPT !.jobs[j] = [st |-> "reserved", by |-> proc[p].cli]],
                         p, TRUE, j))

\* delete works on a job the client reserved and on a ready or delayed job.
ReplyDestroy(p) ==
  /\ proc[p].pc = "wait" /\ proc[p].cmd = "destroy"
  /\ cliState[proc[p].cli] = "open"
  /\ LET j == proc[p].job IN
     IF \/ jobs[j].st \in {"ready", "delayed"}
        \/ jobs[j].st = "reserved" /\ jobs[j].by = proc[p].cli
     THEN Apply(Settle([Cur EXCEPT !.jobs[j] = [st |-> "deleted", by |-> 0]], p, TRUE, 0))
     ELSE Apply(Settle(Cur, p, FALSE, StrErr("NOT_FOUND")))

ReplyRelease(p) ==
  /\ proc[p].pc = "wait" /\ proc[p].cmd = "release"
  /\ cliState[proc[p].cli] = "open"
  /\ LET j == proc[p].job IN
     IF jobs[j].st = "reserved" /\ jobs[j].by = proc[p].cli
     THEN Apply(Settle([Cur EXCEPT !.jobs[j] =
                          [st |-> IF proc[p].arg > 0 THEN "delayed" ELSE "ready",
                           by |-> 0]], p, TRUE, 0))
     ELSE Apply(Settle(Cur, p, FALSE, StrErr("NOT_FOUND")))

ReplyPeek(p) ==
  /\ proc[p].pc = "wait" /\ proc[p].cmd \in {"peek_ready", "peek_delayed"}
  /\ cliState[proc[p].cli] = "open"
  /\ LET found == IF proc[p].cmd = "peek_ready" THEN ReadyJobs ELSE DelayedJobs IN
     IF found = {}
     THEN Apply(Settle(Cur, p, FALSE, StrErr("NOT_FOUND")))
     ELSE \E j \in found : Apply(Settle(Cur, p, TRUE, j))

\* put is answered with the id of the new job, or refused (DRAINING).
ReplyPut(p, ok) ==
  /\ proc[p].pc = "wait" /\ proc[p].cmd = "put"
  /\ cliState[proc[p].cli] = "open"
  /\ IF ~ok THEN Apply(Settle(Cur, p, FALSE, StrErr("DRAINING")))
     ELSE \E j \in Jobs :
            /\ jobs[j].st = "none"
            /\ \A i \in Jobs : jobs[i].st = "none" => j <= i
            /\ Apply(Settle([Cur EXCEPT !.jobs[j] = [st |-> "ready", by |-> 0]], p, TRUE, j))

\* A variant of the program that keeps the failure of a handler and goes on
\* with the handlers that are left before it releases the job.
HandlerDoneGoesOn(p, ok) ==
  /\ proc[p].pc = "handler"
  /\ IF proc[p].hidx < handlers
     THEN Apply([Cur EXCEPT !.proc[p].hidx = @ + 1,
                            !.proc[p].err = IF ok THEN @ ELSE HandlerErr])
     ELSE IF ok /\ proc[p].err = NoErr
     THEN Apply(DestroyJob(Cur, p))
     ELSE Apply(ReleaseJob(Cur, p, HandlerErr))

\* runJob(handler, [payload], PROCESSING_TIMEOUT) ends: the handler
\* succeeded, or it failed or ran out of time.
HandlerDone(p, ok) ==
  /\ proc[p].pc = "handler"
  /\ IF ~ok THEN Apply(ReleaseJob(Cur, p, HandlerErr))
     ELSE IF proc[p].hidx < handlers
     THEN Apply([Cur EXCEPT !.proc[p].hidx = @ + 1])
     ELSE Apply(DestroyJob(Cur, p))

\* setTimeout(resume, backoff) fires.
BackoffDone(p) ==
  /\ proc[p].pc = "backoff"
  /\ Apply(LoopTop(Cur, p))

\* The tube: a delay elapses; the connection that reserved a job is gone;
\* the time to run of a reserved job is over.
DelayElapse(j) ==
  /\ jobs[j].st = "delayed"
  /\ jobs' = [jobs EXCEPT ![j] = [st |-> "ready", by |-> 0]]
  /\ UNCHANGED <<processing, handlers, width, reserveSessions, client,
                 cliState, cliSess, proc, testMode, authenticate>>

ConnectionGone(j) ==
  /\ jobs[j].st = "reserved"
  /\ cliState[jobs[j].by] \in {"ending", "closed"}
  /\ jobs' = [jobs EXCEPT ![j] = [st |-> "ready", by |-> 0]]
  /\ UNCHANGED <<processing, handlers, width, reserveSessions, client,
                 cliState, cliSess, proc, testMode, authenticate>>

\* ------------------------------------------------------- specifications
\* The events of the transport of the clients.
Transport ==
  \/ \E k \in Clients : TransportConnect(k)
  \/ \E p \in Procs, ok \in BOOLEAN : ConnectReply(p, ok)
  \/ \E k \in Clients : TransportError(k)
  \/ \E k \in Clients : TransportClose(k)

\* What happens to a job a worker reserved.
Work ==
  \/ \E p \in Procs : ReplyReserve(p)
  \/ \E p \in Procs : ReplyDestroy(p)
  \/ \E p \in Procs : ReplyRelease(p)
  \/ \E p \in Procs, ok \in BOOLEAN : HandlerDone(p, ok)
  \/ \E j \in Jobs : DelayElapse(j)
  \/ \E j \in Jobs : ConnectionGone(j)

\* The whole program.
Next ==
  \/ \E w \in 0..MaxWidth : Each(w)
  \/ Start
  \/ Stop
  \/ Once
  \/ Reset
  \/ Push
  \/ \E p \in Procs : ReplyPeek(p)
  \/ \E p \in Procs, ok \in BOOLEAN : ReplyPut(p, ok)
  \/ \E p \in Procs : BackoffDone(p)
  \/ Work
  \/ Transport

Spec == Init /\ [][Next]_vars

\* A queue that is drained: handlers registered without a width, then
\* once(), or start() when no once() is in flight; the queue is not stopped.
NextDrain ==
  \/ Each(0)
  \/ Start /\ proc[OnceId].pc = "idle"
  \/ Once
  \/ \E p \in Procs : BackoffDone(p)
  \/ Work
  \/ Transport

\* The server asks for no authentication.
InitPlain == Init /\ ~authenticate

SpecDrain == InitPlain /\ [][NextDrain]_vars

\* The same, with a broker that answers every release it was sent, a tube
\* whose delays elapse, and a broker that notices a connection that is gone.
FairTube ==
  /\ \A p \in Procs : WF_vars(ReplyRelease(p))
  /\ \A j \in Jobs : WF_vars(DelayElapse(j)) /\ WF_vars(ConnectionGone(j))

NextLoop ==
  \/ Each(0)
  \/ Start
  \/ \E p \in Procs : BackoffDone(p)
  \/ Work
  \/ Transport

SpecLoopFair == InitPlain /\ [][NextLoop]_vars /\ FairTube

\* A queue that is started and stopped, with one handler and one ready job.
NextStop ==
  \/ Each(0) /\ handlers = 0
  \/ Start
  \/ Stop
  \/ \E p \in Procs : BackoffDone(p)
  \/ Work
  \/ Transport

InitStop ==
  /\ InitPlain
  /\ ~testMode
  /\ jobs = [j \in Jobs |-> IF j = 1 THEN [st |-> "ready", by |-> 0] ELSE NoJob]

SpecStop == InitStop /\ [][NextStop]_vars

\* A queue on an empty tube: handlers registered with any width, start()
\* and stop() in any order.
NextIdle ==
  \/ \E w \in 0..MaxWidth : Each(w)
  \/ Start
  \/ Stop
  \/ \E p \in Procs : ReplyReserve(p)
  \/ \E p \in Procs : BackoffDone(p)
  \/ Transport

InitIdle ==
  /\ InitPlain
  /\ jobs = [j \in Jobs |-> NoJob]

SpecIdle == InitIdle /\ [][NextIdle]_vars

\* A queue on an empty tube: once() and start() in any order.
NextOnceStart ==
  \/ Each(0)
  \/ Start
  \/ Once
  \/ \E p \in Procs : ReplyReserve(p)
  \/ \E p \in Procs : BackoffDone(p)
  \/ Transport

SpecOnceStart == InitIdle /\ [][NextOnceStart]_vars

\* Connections of both kinds, with and without a credential: once() and
\* the loops connect reservation sessions, reset() the put session.
NextConnect ==
  \/ Each(0)
  \/ Start
  \/ Once
  \/ Reset
  \/ \E p \in Procs : ReplyReserve(p)
  \/ \E p \in Procs : ReplyPeek(p)
  \/ \E p \in Procs : BackoffDone(p)
  \/ Transport

InitConnect ==
  /\ Init
  /\ jobs = [j \in Jobs |-> NoJob]

SpecConnect == InitConnect /\ [][NextConnect]_vars

\* The put session: push() and reset().
NextPut ==
  \/ Push
  \/ Reset
  \/ \E p \in Procs : ReplyPeek(p)
  \/ \E p \in Procs, ok \in BOOLEAN : ReplyPut(p, ok)
  \/ \E p \in Procs : ReplyDestroy(p)
  \/ \E j \in Jobs : DelayElapse(j)
  \/ Transport

SpecPut == Init /\ [][NextPut]_vars

\* ----------------------------------------------------------- properties
\* The coroutines that reserve and run jobs.
Workers == Loops \cup {OnceId}

\* Worker p has asked for the acknowledgement of its job (the request is
\* connecting, or the command is with the broker).
Acking(p) ==
  /\ proc[p].pc \in {"connect", "wait"}
  /\ proc[p].cmd \in {"destroy", "release"}

\* Worker p asks for the acknowledgement cmd in this step.
Asks(p, cmd) ==
  /\ proc'[p].pc \in {"connect", "wait"}
  /\ proc'[p].cmd = cmd
  /\ proc'[p].job = proc[p].job

\* C1: for every job handed to _runAndDestroy exactly one acknowledgement
\* is asked for.  A run leaves its handlers only by asking for destroy, after
\* the last handler succeeded and with no failure kept, or by asking for
\* release with priority 0 and the configured delay (0 in test mode, 60
\* seconds otherwise), keeping the handler's failure.  While the
\* acknowledgement is outstanding it stays the same command for the same
\* job, and when it settles, also with a rejection, no other
\* acknowledgement follows: a run asks for an acknowledgement only on
\* leaving a handler, and it enters a handler only with a job just reserved.
\* So a job whose handler failed is never destroyed by that run.
C1_OneAcknowledgement ==
  [][\A p \in Workers :
       /\ (proc[p].pc = "handler" /\ proc'[p] # proc[p]) =>
            \/ /\ proc[p].hidx < handlers
               /\ proc'[p] = [proc[p] EXCEPT !.hidx = @ + 1]
            \/ /\ proc[p].hidx >= handlers
               /\ Asks(p, "destroy")
               /\ proc'[p].err = NoErr
            \/ /\ Asks(p, "release")
               /\ proc'[p].err = HandlerErr
               /\ proc'[p].arg = IF testMode THEN 0 ELSE 60
       /\ (Acking(p) /\ proc'[p] # proc[p]) =>
            \/ ~Acking(p)'
            \/ proc[p].pc = "connect" /\ Asks(p, proc[p].cmd)
                 /\ proc'[p].err = proc[p].err
       /\ (Acking(p)' /\ ~Acking(p)) => proc[p].pc = "handler"
       /\ (proc'[p].pc = "handler" /\ proc[p].pc # "handler") =>
            /\ proc[p].pc = "wait" /\ proc[p].cmd = "reserve"
            /\ jobs'[proc'[p].job].st = "reserved"
  ]_vars

\* C1 (witness): the second handler failed after the first succeeded, and
\* the release of the job is with the broker.
C1_Witness ==
  \E p \in Workers :
    /\ proc[p].pc = "wait" /\ proc[p].cmd = "release"
    /\ proc[p].hidx = 2 /\ proc[p].err = HandlerErr
    /\ jobs[proc[p].job].st = "reserved"

\* Worker p is inside _runAndDestroy.
InRun(p) == proc[p].pc = "handler" \/ Acking(p)

\* The broker holds job j and lets client k delete it.
Deletable(j, k) ==
  \/ jobs[j].st \in {"ready", "delayed"}
  \/ jobs[j].st = "reserved" /\ jobs[j].by = k

\* C2 (as stated): when the run of a job whose handlers all succeeded
\* ends, the job is deleted at the broker, so that no later drain reserves
\* it again.
C2_DrainedJobIsDestroyed ==
  [][\A p \in Workers :
       (Acking(p) /\ proc[p].err = NoErr /\ ~Acking(p)') =>
          jobs'[proc[p].job].st = "deleted"
  ]_vars

\* C2 (amended): a run ends only with its acknowledgement; when the handlers
\* all succeeded and the broker itself answers the destroy of a job it holds
\* for that client (the connection stays open), the job is deleted; and a
\* deleted job never changes again: it is deleted once and is never
\* reserved again.
C2_DestroyedOnceWhenAnswered ==
  [][/\ \A p \in Workers :
          /\ (InRun(p) /\ ~InRun(p)') => Acking(p)
          /\ ( /\ Acking(p) /\ proc[p].err = NoErr /\ ~Acking(p)'
               /\ proc[p].pc = "wait"
               /\ cliState'[proc[p].cli] = "open"
               /\ Deletable(proc[p].job, proc[p].cli) ) =>
                 jobs'[proc[p].job].st = "deleted"
     /\ \A j \in Jobs : jobs[j].st = "deleted" => jobs'[j] = jobs[j]
  ]_vars

\* C2 (witness): once() had a job deleted and reserves again while another
\* job is ready.
C2_Witness ==
  /\ proc[OnceId].any /\ proc[OnceId].pc = "wait" /\ proc[OnceId].cmd = "reserve"
  /\ \E j \in Jobs : jobs[j].st = "deleted"
  /\ \E j \in Jobs : jobs[j].st = "ready"

\* Worker p has asked for the release of job j after a handler failed.
Releasing(p, j) ==
  Acking(p) /\ proc[p].cmd = "release" /\ proc[p].job = j

\* C3: a job whose handler failed is released with the configured delay (0
\* in test mode, 60 seconds otherwise); the broker that answers the release
\* makes the job ready when the delay is zero and delayed otherwise; the job
\* is not deleted while its release is outstanding or when it settles; and
\* from the moment the release is asked for the job eventually is ready
\* again, whether the release succeeds or is rejected.
C3_ReleasedAndReservableAgain ==
  /\ [][\A p \in Workers :
         /\ (proc[p].pc = "handler" /\ proc'[p].err = HandlerErr) =>
               /\ Asks(p, "release")
               /\ proc'[p].arg = IF testMode THEN 0 ELSE 60
         /\ \A j \in Jobs : Releasing(p, j) =>
               /\ jobs[j].st # "deleted" /\ jobs'[j].st # "deleted"
               /\ ( /\ proc[p].pc = "wait" /\ ~Acking(p)'
                    /\ cliState'[proc[p].cli] = "open"
                    /\ jobs[j].st = "reserved" /\ jobs[j].by = proc[p].cli ) =>
                      jobs'[j].st = IF proc[p].arg = 0 THEN "ready" ELSE "delayed"
       ]_vars
  /\ \A p \in Workers, j \in Jobs : Releasing(p, j) ~> jobs[j].st = "ready"

\* C3 (witness): outside test mode the job of a failed handler is delayed
\* after its release, and the worker that released it has gone on.
C3_Witness ==
  /\ ~testMode
  /\ \E j \in Jobs : jobs[j].st = "delayed"
  /\ \E p \in Loops : proc[p].pc = "backoff" /\ proc[p].err = HandlerErr

\* The reservation loops that hold a connection to reserve on, or a job.
BusyLoops ==
  {p \in Loops :
     \/ proc[p].pc = "handler"
     \/ /\ proc[p].pc = "wait" /\ proc[p].cmd = "reserve"
        /\ cliState[proc[p].cli] = "open"}

\* C4: the number of reservation loops of the queue that are at work at
\* the same time (reserving on an open connection, or running a handler)
\* never exceeds the width of the queue.
C4_LoopsBoundedByWidth == Cardinality(BusyLoops) <= width

\* C5: while the queue is stopped (after stop() and before the next
\* start()) no reservation loop sends a reserve command.
C5_NoReserveWhileStopped ==
  [][\A p \in Loops :
       (~processing /\ ~processing' /\ proc'[p] # proc[p]) =>
          ~(proc'[p].pc = "wait" /\ proc'[p].cmd = "reserve")
  ]_vars

\* C6: a reserve that was outstanding when stop() ended its connection
\* fails with TIMED_OUT when the connection closes, and the loop that sent
\* it exits without a backoff.
C6_StoppedReserveExits ==
  [][\A p \in Loops :
       ( /\ proc[p].pc = "wait" /\ proc[p].cmd = "reserve"
         /\ cliState[proc[p].cli] = "ending"
         /\ proc'[p] # proc[p] ) => proc'[p] = IdleProc
  ]_vars

\* C7: a request never is parked in connect(): as long as it is
\* connecting some event can still resume it, with the client or with a
\* failure.
C7_ConnectNeverParked ==
  \A p \in Procs :
    proc[p].pc = "connect" => ENABLED (NextDrain /\ proc'[p] # proc[p])

\* The callers that get the outcome of a request as it is.
Callers == {PushId, ResetId}

\* The request of p, with its command sent on client k, settles in this step.
Settles(p) == proc[p].pc = "wait" /\ proc'[p] # proc[p]

C9_ResetLeavesTubeEmpty ==
  [][( /\ proc[ResetId].pc # "idle" /\ proc'[ResetId].pc = "idle"
       /\ proc'[ResetId].res = "ok"
       /\ proc'[PushId] = IdleProc ) =>
         \A j \in Jobs : jobs'[j].st \notin {"ready", "delayed"}
  ]_vars

\* C10: when a handler failed for a job reserved during once(), once()
\* ends by failing with that handler's failure, whatever happens to the
\* release that follows; and once() returns normally only when a reserve
\* reported the idle timeout.
C10_OnceSurfacesHandlerFailure ==
  [][(proc[OnceId].pc # "idle" /\ proc'[OnceId].pc = "idle") =>
       /\ proc[OnceId].cmd = "release" =>
            proc'[OnceId].res = "threw" /\ proc'[OnceId].err = HandlerErr
       /\ proc'[OnceId].res \in {"true", "false"} =>
            proc[OnceId].cmd = "reserve"
  ]_vars

\* The reservation loops that have not ended.
LiveLoops == {p \in Loops : proc[p].pc # "idle"}

\* C11: an each() call on a processing queue that had no handler starts
\* exactly width loops, one on the session of every slot below width, and
\* no loop was running before it; every other each() call starts no loop
\* and touches no loop and no slot.
C11_FirstEachStartsWidthLoops ==
  [][handlers' # handlers =>
       IF processing /\ handlers = 0
       THEN /\ LiveLoops = {}
            /\ Cardinality(LiveLoops') = width'
            /\ \A i \in Slots :
                 IF i < width'
                 THEN /\ reserveSessions'[i] # 0
                      /\ Cardinality({p \in Loops :
                            /\ proc'[p].pc # "idle"
                            /\ proc'[p].sess = reserveSessions'[i]}) = 1
                 ELSE reserveSessions'[i] = 0
       ELSE /\ \A p \in Loops : proc'[p] = proc[p]
            /\ reserveSessions' = reserveSessions
  ]_vars

\* C11 (witness): two handlers are registered on a processing queue of
\* width 2 and two loops are running, each on the session of its slot.
C11_Witness ==
  /\ processing /\ handlers = 2 /\ width = 2
  /\ Cardinality(LiveLoops) = 2
  /\ \A i \in Slots : \E p \in Loops :
        proc[p].pc # "idle" /\ proc[p].sess = reserveSessions[i]

\* C12: start() is idempotent.  While the queue is processing, no step but
\* the each() that registers a handler starts a loop or creates a session,
\* so a start() on a processing queue changes nothing; and the start() that
\* sets processing on a queue with no handler changes nothing else.
C12_StartIdempotent ==
  [][/\ (processing /\ processing' /\ handlers' = handlers) =>
          /\ \A p \in Loops : proc[p].pc = "idle" => proc'[p].pc = "idle"
          /\ reserveSessions' = reserveSessions
     /\ (~processing /\ processing') =>
          /\ handlers' = handlers /\ width' = width
          /\ handlers = 0 =>
               /\ proc' = proc /\ reserveSessions' = reserveSessions
               /\ client' = client /\ cliState' = cliState /\ jobs' = jobs
  ]_vars

\* C12 (witness): the queue was started without a handler: it is
\* processing, and it has no loop and no reservation session.
C12_Witness ==
  /\ processing /\ handlers = 0
  /\ LiveLoops = {}
  /\ \A i \in Slots : reserveSessions[i] = 0

\* The transports of Session s that are connecting or connected.
LiveClients(s) ==
  {k \in Clients : cliSess[k] = s /\ cliState[k] \in {"connecting", "open"}}

\* C13: a Session has at most one connect attempt in flight and at most
\* one live transport.
C13_OneTransportPerSession ==
  \A s \in Sessions : Cardinality(LiveClients(s)) <= 1

\* Loop p reserves in the next state.
Reserves(p) == proc'[p].pc \in {"connect", "wait"} /\ proc'[p].cmd = "reserve"

DropsUnderReserve(p) ==
  /\ proc[p].pc = "wait" /\ proc[p].cmd = "reserve"
  /\ processing /\ processing'
  /\ cliState[proc[p].cli] = "open" /\ cliState'[proc[p].cli] # "open"

Dies(k) ==
  /\ cliState[k] # "unused"
  /\ cliState'[k] # cliState[k]
  /\ ~(cliState[k] = "connecting" /\ cliState'[k] = "open")

\* C16: the current handle of a Session is always a live transport of that
\* Session; a step in which a transport dies (its error or close event)
\* leaves the Session without that handle, so that the next connect()
\* creates a client, and when the dying transport was not the current
\* handle the current handle is what it was.
C16_DeadHandleCleared ==
  /\ [](\A s \in Sessions :
          client[s] # 0 => cliState[client[s]] = "open" /\ cliSess[client[s]] = s)
  /\ [][\A k \in Clients :
          Dies(k) =>
            /\ client'[cliSess[k]] # k
            /\ client[cliSess[k]] # k => client'[cliSess[k]] = client[cliSess[k]]
       ]_vars

\* An error event fired on the current handle of the put session and
\* rejected a request; the next connect() made a client, which is the
\* current handle now, while the dead one waits for its close event.
C16_Witness ==
  /\ client[PutSession] # 0
  /\ \E k \in Clients \ {client[PutSession]} :
       cliSess[k] = PutSession /\ cliState[k] = "ending"
  /\ \E p \in {PushId, ResetId} : proc[p].pc = "idle" /\ proc[p].err = TransportErr

\* The last command of the setup function of session s.
LastSetup(s) == IF s = PutSession THEN "use" ELSE "ignore"

\* connect() of process p goes from one of its steps to the next one, in
\* the order of the code.
Advances(p) ==
  /\ proc'[p].pc = "connect" /\ proc'[p].cli = proc[p].cli
  /\ cliState'[proc[p].cli] = "open"
  /\ \/ proc[p].cstep = "tcp" /\ authenticate /\ proc'[p].cstep = "auth"
     \/ proc[p].cstep = "tcp" /\ ~authenticate /\ proc'[p].cstep = FirstSetup(proc[p].sess)
     \/ proc[p].cstep = "auth" /\ proc'[p].cstep = FirstSetup(proc[p].sess)
     \/ proc[p].cstep = "watch" /\ proc'[p].cstep = "ignore"

\* connect() of process p returns: the last command of the setup was
\* answered, the client is stored and the command of the request is sent.
Completes(p) ==
  /\ proc[p].cstep = LastSetup(proc[p].sess)
  /\ cliState[proc[p].cli] = "open" /\ cliState'[proc[p].cli] = "open"
  /\ client'[proc[p].sess] = proc[p].cli
  /\ proc'[p].pc = "wait" /\ proc'[p].cli = proc[p].cli

\* connect() of process p throws: the transport is ended and no handle
\* is stored.
Fails(p) ==
  /\ proc[p].cstep \in {"auth", "use", "watch", "ignore"}
  /\ proc'[p].pc \notin {"connect", "wait"}
  /\ cliState'[proc[p].cli] \notin {"connecting", "open"}
  /\ client' = client
  /\ client[proc[p].sess] # proc[p].cli

Reserving(s) ==
  {p \in Workers : proc[p].pc = "wait" /\ proc[p].cmd = "reserve" /\ proc[p].sess = s}

\* C18: on every reservation Session at most one reserve_with_timeout is
\* outstanding at any time.
C18_OneReserveOutstanding ==
  \A s \in Sessions \ {PutSession} : Cardinality(Reserving(s)) <= 1

\* C19: the handler a worker runs is a registered one and no handler of
\* this delivery has failed before it; a run starts with the first handler
\* and goes from a handler to the next one only; the failure of a handler
\* ends the run of the handlers with the request to release the job, after
\* which the worker runs no handler and asks for no second release until it
\* has reserved again.
C19_HandlersInOrder ==
  /\ [](\A p \in Workers :
          proc[p].pc = "handler" =>
            proc[p].hidx \in 1..handlers /\ proc[p].err = NoErr)
  /\ [][\A p \in Workers :
          /\ proc'[p].pc = "handler" =>
               IF proc[p].pc = "handler"
               THEN \/ proc'[p] = proc[p]
                    \/ proc'[p].hidx = proc[p].hidx + 1 /\ proc'[p].job = proc[p].job
               ELSE proc'[p].hidx = 1
          /\ (proc[p].pc = "handler" /\ proc'[p].err # NoErr) =>
               Asks(p, "release") /\ proc'[p].hidx = proc[p].hidx
          /\ (Acking(p) /\ proc[p].cmd = "release") =>
               /\ proc'[p].pc # "handler"
               /\ (Acking(p)' /\ proc'[p].cmd = "release") =>
                    proc'[p] = proc[p] \/ proc[p].pc = "connect"
       ]_vars

\* Two handlers are registered, the first one failed: the release of the
\* job is asked for and the second handler was not run.
C19_Witness ==
  /\ handlers = 2
  /\ \E p \in Workers :
       /\ Acking(p) /\ proc[p].cmd = "release"
       /\ proc[p].hidx = 1 /\ proc[p].err = HandlerErr
       /\ jobs[proc[p].job].st = "reserved"

\* C20: when the queue is stopped and every loop has finished, no
\* reservation Session holds a transport handle.
C20_StopLeavesNoConnection ==
  (~processing /\ \A p \in Loops : proc[p].pc = "idle") =>
    \A s \in Sessions \ {PutSession} : client[s] = 0

====
